---------------------------- MODULE Spec2Model ----------------------------
(***************************************************************************)
(* A model of pyuv3: the fixed-width integers of pyuv3/flowint.py, the     *)
(* liquidity netting, tick paging and memoization of pyuv3/pool.py, the    *)
(* fee-growth arithmetic of pyuv3/pos.py and the fee-tier lookup of        *)
(* pyuv3/base.py.                                                          *)
(*                                                                         *)
(* A Python object is a record with ok |-> TRUE; a raised exception is a   *)
(* record with ok |-> FALSE and the exception in err.                      *)
(***************************************************************************)
EXTENDS Integers, Sequences, FiniteSets, TLC

(***************************************************************************)
(* Bounds.  The 128-bit liquidity integers and the 256-bit fee-growth      *)
(* accumulators are modelled at the reduced widths LiqBits and FeeBits.    *)
(***************************************************************************)
MaxBits == 4

LiqBits == 3

MaxTick == 1

FeeBits == 2

MaxFeeTier == 10001

MaxRemote == 2

MaxPageSize == 2

MaxPages == 2

MaxCalls == 2

VARIABLES
    pc,                 \* position in the fixed-width integer calls
    num_bits,           \* FlowInt.__init__ argument num_bits
    is_signed,          \* FlowInt.__init__ argument is_signed
    num,                \* FlowInt.__init__ argument num of the left operand
    o_num,              \* FlowInt.__init__ argument num of the right operand
    lhs,                \* the constructed left operand (self), or the error
    rhs,                \* the constructed right operand (o), or the error
    op,                 \* the dunder method applied to (lhs, rhs)
    result,             \* what the dunder method returned or raised
    liq,                \* calc_liq_net argument liq
    dliq,               \* calc_liq_net argument dliq
    is_allow_overflow,  \* calc_liq_net argument is_allow_overflow
    new_liq,            \* what calc_liq_net returned or raised
    ticks,              \* UniswapV3Pool.ticks: tick index -> IFlow128
    liq_dist,           \* what get_liq_dist returned or raised
    liquidity,          \* calc_fees arguments
    current_tick,
    min_tick,
    max_tick,
    global_fee_growth0x128,
    global_fee_growth1x128,
    min_tick_fee_growth_outside0x128,
    min_tick_fee_growth_outside1x128,
    max_tick_fee_growth_outside0x128,
    max_tick_fee_growth_outside1x128,
    fee_growth_inside_last0x128,
    fee_growth_inside_last1x128,
    fees,               \* what calc_fees computed or raised
    fee_tier,           \* calc_fee_tier_tick_spacing argument
    tick_spacing,       \* what calc_fee_tier_tick_spacing returned or raised
    remote,             \* the ticks of the pool as the subgraph holds them
    page_size,          \* how many ticks the subgraph returns for one query
    max_num_pages,      \* get_ticks argument max_num_pages
    got,                \* what get_ticks returned or raised, and its queries
    num_get_ticks,      \* how many times get_ticks has been called
    num_get_liq_dist,   \* how many times get_liq_dist has been called
    raised              \* what the last ensure_* call raised, if it did

flowVars == <<pc, num_bits, is_signed, num, o_num, lhs, rhs, op, result>>

liqVars == <<liq, dliq, is_allow_overflow, new_liq>>

poolVars == <<ticks, liq_dist>>

feeTicksAndGrowth ==
    <<current_tick, min_tick, max_tick,
      global_fee_growth0x128, global_fee_growth1x128,
      min_tick_fee_growth_outside0x128, min_tick_fee_growth_outside1x128,
      max_tick_fee_growth_outside0x128, max_tick_fee_growth_outside1x128,
      fee_growth_inside_last0x128, fee_growth_inside_last1x128>>

feeArgs == <<liquidity, feeTicksAndGrowth>>

feeVars == <<feeArgs, fees>>

baseVars == <<fee_tier, tick_spacing>>

pagesVars == <<remote, page_size, max_num_pages, got>>

ensureVars == <<num_get_ticks, num_get_liq_dist, raised>>

vars ==
    <<flowVars, liqVars, poolVars, feeVars, baseVars, pagesVars, ensureVars>>

\* what the calls on one part of the library leave alone
notFlow == <<liqVars, poolVars, feeVars, baseVars, pagesVars, ensureVars>>

notLiq == <<flowVars, poolVars, feeVars, baseVars, pagesVars, ensureVars>>

notPool == <<flowVars, liqVars, feeVars, baseVars, pagesVars, ensureVars>>

notFees == <<flowVars, liqVars, poolVars, baseVars, pagesVars, ensureVars>>

notBase == <<flowVars, liqVars, poolVars, feeVars, pagesVars, ensureVars>>

notPages == <<flowVars, liqVars, poolVars, feeVars, baseVars, ensureVars>>

notEnsure == <<flowVars, liqVars, feeVars, baseVars>>

----------------------------------------------------------------------------
(* Python integer primitives *)

RECURSIVE Pow2(_)
Pow2(n) == IF n = 0 THEN 1 ELSE 2 * Pow2(n - 1)

\* abs(a)
PyAbs(a) == IF a < 0 THEN -a ELSE a

\* PyFloorDiv rounding toward zero, as C-style integer division does
PyFloorDiv_Trunc(a, b) ==
    IF (a < 0) = (b < 0) THEN PyAbs(a) \div PyAbs(b)
    ELSE -(PyAbs(a) \div PyAbs(b))

\* a // b on Python ints, b # 0: the quotient rounded toward minus infinity
PyFloorDiv(a, b) == IF b > 0 THEN a \div b ELSE (-a) \div (-b)

\* a & b on non-negative ints, bit by bit
RECURSIVE BitAndNat(_, _)
BitAndNat(a, b) ==
    IF a = 0 \/ b = 0 THEN 0
    ELSE (a % 2) * (b % 2) + 2 * BitAndNat(a \div 2, b \div 2)

\* PyAnd taking the bits of the magnitude of a negative a
PyAnd_Magnitude(a, m) == BitAndNat(PyAbs(a), m)

\* a & m on Python ints, m >= 0; a negative a is the infinite two's
\* complement ~(-a - 1), whose bits under m are those -a - 1 lacks
PyAnd(a, m) == IF a >= 0 THEN BitAndNat(a, m) ELSE m - BitAndNat(-a - 1, m)

\* n in range(lo, hi)
InRange(n, lo, hi) == lo <= n /\ n < hi

None == [ok |-> TRUE, none |-> TRUE]

Raise(e) == [ok |-> FALSE, err |-> e]

\* a dict held in a variable or returned by a call
Dict(f) == [ok |-> TRUE, val |-> f]

----------------------------------------------------------------------------
(* pyuv3/flowint.py *)

\* each IFlow and UFlow below is built through FlowInt.__init__
two_pow(b) == Pow2(b)

min_signed_neg(b) == PyFloorDiv(-two_pow(b), 2)

max_signed_pos(b) == PyFloorDiv(two_pow(b), 2) - 1

mask(b) == two_pow(b) - 1

\* FlowInt with the signed assert lacking the + 1 on the end of the range
FlowInt_NoPlusOne(n, s, b) ==
    IF s
    THEN IF InRange(n, min_signed_neg(b), max_signed_pos(b))
         THEN [ok |-> TRUE, num |-> n, is_signed |-> TRUE, num_bits |-> b]
         ELSE Raise("AssertionError")
    ELSE IF InRange(n, 0, two_pow(b))
         THEN [ok |-> TRUE, num |-> n, is_signed |-> FALSE, num_bits |-> b]
         ELSE Raise("AssertionError")

\* FlowInt.__init__: the two asserts decide whether an object exists
FlowInt(n, s, b) ==
    IF s
    THEN IF InRange(n, min_signed_neg(b), max_signed_pos(b) + 1)
         THEN [ok |-> TRUE, num |-> n, is_signed |-> TRUE, num_bits |-> b]
         ELSE Raise("AssertionError")
    ELSE IF InRange(n, 0, two_pow(b))
         THEN [ok |-> TRUE, num |-> n, is_signed |-> FALSE, num_bits |-> b]
         ELSE Raise("AssertionError")

IFlow(n, b) == FlowInt(n, TRUE, b)

UFlow(n, b) == FlowInt(n, FALSE, b)

\* IFlowAdd without the elif branch for a sum below min_signed_neg
IFlowAdd_NoUnderflow(self, o) ==
    LET r == self.num + o.num
        b == self.num_bits
    IN  IF r > max_signed_pos(b) THEN IFlow(r - two_pow(b), b)
        ELSE IFlow(r, b)

IFlowAdd(self, o) ==
    LET r == self.num + o.num
        b == self.num_bits
    IN  IF r > max_signed_pos(b) THEN IFlow(r - two_pow(b), b)
        ELSE IF r < min_signed_neg(b) THEN IFlow(r + two_pow(b), b)
        ELSE IFlow(r, b)

IFlowSub(self, o) ==
    LET r == self.num - o.num
        b == self.num_bits
    IN  IF r > max_signed_pos(b) THEN IFlow(r - two_pow(b), b)
        ELSE IF r < min_signed_neg(b) THEN IFlow(r + two_pow(b), b)
        ELSE IFlow(r, b)

IFlowMul(self, o) ==
    LET r == self.num * o.num
        b == self.num_bits
    IN  IF r > max_signed_pos(b) THEN IFlow(r % two_pow(b), b)
        ELSE IF r < min_signed_neg(b) THEN IFlow(-(PyAbs(r) % two_pow(b)), b)
        ELSE IFlow(r, b)

IFlowTrueDiv(self, o) ==
    IF o.num = 0 THEN Raise("ZeroDivisionError")
    ELSE IFlow(PyFloorDiv(self.num, o.num), self.num_bits)

UFlowAdd(self, o) ==
    UFlow(PyAnd(self.num + o.num, mask(self.num_bits)), self.num_bits)

\* UFlowSub without the mask
UFlowSub_NoMask(self, o) == UFlow(self.num - o.num, self.num_bits)

UFlowSub(self, o) ==
    UFlow(PyAnd(self.num - o.num, mask(self.num_bits)), self.num_bits)

UFlowMul(self, o) ==
    UFlow(PyAnd(self.num * o.num, mask(self.num_bits)), self.num_bits)

UFlowTrueDiv(self, o) ==
    IF o.num = 0 THEN Raise("ZeroDivisionError")
    ELSE UFlow(PyAnd(PyFloorDiv(self.num, o.num), mask(self.num_bits)),
               self.num_bits)

IFlow128(n) == IFlow(n, LiqBits)

UFlow128(n) == UFlow(n, LiqBits)

----------------------------------------------------------------------------
(* The fixed-width integer calls: construct two operands, apply a dunder *)

Widths == 1 .. MaxBits

\* arguments handed to the constructor, in and out of either range
RawNums(b) == (-Pow2(b) - 1) .. (Pow2(b) + 1)

IdleFlow ==
    /\ pc = "idle"
    /\ num_bits = 1 /\ is_signed = FALSE /\ num = 0 /\ o_num = 0
    /\ lhs = None /\ rhs = None /\ op = "none" /\ result = None

IdleLiq ==
    /\ liq = None /\ dliq = None /\ is_allow_overflow = TRUE
    /\ new_liq = None

IdlePool ==
    /\ ticks = None /\ liq_dist = None

IdlePages ==
    /\ remote = <<>> /\ page_size = 1 /\ max_num_pages = 1 /\ got = None

IdleEnsure ==
    /\ num_get_ticks = 0 /\ num_get_liq_dist = 0 /\ raised = None

IdleBase ==
    /\ fee_tier = [halves |-> 0] /\ tick_spacing = None

IdleFees ==
    /\ liquidity = 0
    /\ current_tick = 0 /\ min_tick = 0 /\ max_tick = 0
    /\ global_fee_growth0x128 = 0
    /\ global_fee_growth1x128 = 0
    /\ min_tick_fee_growth_outside0x128 = 0
    /\ min_tick_fee_growth_outside1x128 = 0
    /\ max_tick_fee_growth_outside0x128 = 0
    /\ max_tick_fee_growth_outside1x128 = 0
    /\ fee_growth_inside_last0x128 = 0
    /\ fee_growth_inside_last1x128 = 0
    /\ fees = None

InitFlow ==
    /\ pc = "start"
    /\ num_bits \in Widths
    /\ is_signed \in BOOLEAN
    /\ num \in RawNums(num_bits)
    /\ o_num \in RawNums(num_bits)
    /\ lhs = None /\ rhs = None /\ op = "none" /\ result = None
    /\ IdleLiq /\ IdlePool /\ IdleFees /\ IdleBase
    /\ IdlePages /\ IdleEnsure

New ==
    /\ pc = "start"
    /\ lhs' = FlowInt(num, is_signed, num_bits)
    /\ rhs' = FlowInt(o_num, is_signed, num_bits)
    /\ pc' = "built"
    /\ UNCHANGED <<num_bits, is_signed, num, o_num, op, result, notFlow>>

Apply(name, r) ==
    /\ pc = "built" /\ lhs.ok /\ rhs.ok
    /\ op' = name
    /\ result' = r
    /\ pc' = "done"
    /\ UNCHANGED <<num_bits, is_signed, num, o_num, lhs, rhs, notFlow>>

Add == Apply("add", IF is_signed THEN IFlowAdd(lhs, rhs) ELSE UFlowAdd(lhs, rhs))

Sub == Apply("sub", IF is_signed THEN IFlowSub(lhs, rhs) ELSE UFlowSub(lhs, rhs))

Mul == Apply("mul", IF is_signed THEN IFlowMul(lhs, rhs) ELSE UFlowMul(lhs, rhs))

TrueDiv ==
    Apply("truediv", IF is_signed THEN IFlowTrueDiv(lhs, rhs)
                     ELSE UFlowTrueDiv(lhs, rhs))

NextFlow == New \/ Add \/ Sub \/ Mul \/ TrueDiv

SpecFlow == InitFlow /\ [][NextFlow]_vars

----------------------------------------------------------------------------
(* pyuv3/pool.py *)

\* calc_liq_net handing the negative delta itself to UFlow128
calc_liq_net_NoNegate(l, d, allow) ==
    IF d.num < IFlow128(0).num
    THEN LET n == UFlow128(d.num)
             r == IF n.ok THEN UFlowSub(l, n) ELSE n
         IN  IF r.ok /\ ~allow /\ ~(r.num < l.num)
             THEN Raise("AssertionError: LS")
             ELSE r
    ELSE LET n == UFlow128(d.num)
             r == IF n.ok THEN UFlowAdd(l, n) ELSE n
         IN  IF r.ok /\ ~allow /\ ~(r.num >= l.num)
             THEN Raise("AssertionError: LA")
             ELSE r

\* calc_liq_net with the 'LA' assert written new_liq > liq
calc_liq_net_StrictLA(l, d, allow) ==
    IF d.num < IFlow128(0).num
    THEN LET n == UFlow128(-d.num)
             r == IF n.ok THEN UFlowSub(l, n) ELSE n
         IN  IF r.ok /\ ~allow /\ ~(r.num < l.num)
             THEN Raise("AssertionError: LS")
             ELSE r
    ELSE LET n == UFlow128(d.num)
             r == IF n.ok THEN UFlowAdd(l, n) ELSE n
         IN  IF r.ok /\ ~allow /\ ~(r.num > l.num)
             THEN Raise("AssertionError: LA")
             ELSE r

\* calc_liq_net whose subtraction stops at zero instead of wrapping
calc_liq_net_Saturate(l, d, allow) ==
    IF d.num < IFlow128(0).num
    THEN LET n == UFlow128(-d.num)
             r == IF n.ok
                  THEN IF l.num < n.num THEN UFlow128(0) ELSE UFlowSub(l, n)
                  ELSE n
         IN  IF r.ok /\ ~allow /\ ~(r.num < l.num)
             THEN Raise("AssertionError: LS")
             ELSE r
    ELSE LET n == UFlow128(d.num)
             r == IF n.ok THEN UFlowAdd(l, n) ELSE n
         IN  IF r.ok /\ ~allow /\ ~(r.num >= l.num)
             THEN Raise("AssertionError: LA")
             ELSE r

\* UniswapV3Pool.calc_liq_net
calc_liq_net(l, d, allow) ==
    IF d.num < IFlow128(0).num
    THEN LET n == UFlow128(-d.num)
             r == IF n.ok THEN UFlowSub(l, n) ELSE n
         IN  IF r.ok /\ ~allow /\ ~(r.num < l.num)
             THEN Raise("AssertionError: LS")
             ELSE r
    ELSE LET n == UFlow128(d.num)
             r == IF n.ok THEN UFlowAdd(l, n) ELSE n
         IN  IF r.ok /\ ~allow /\ ~(r.num >= l.num)
             THEN Raise("AssertionError: LA")
             ELSE r

\* the tick indices in descending order
RECURSIVE Sorted_Reversed(_)
Sorted_Reversed(s) ==
    IF s = {} THEN <<>>
    ELSE LET m == CHOOSE x \in s : \A y \in s : x >= y
         IN  <<m>> \o Sorted_Reversed(s \ {m})

\* sorted(list(s)) for a set of ints
RECURSIVE Sorted(_)
Sorted(s) ==
    IF s = {} THEN <<>>
    ELSE LET m == CHOOSE x \in s : \A y \in s : x <= y
         IN  <<m>> \o Sorted(s \ {m})

EmptyDict == [t \in {} |-> None]

\* the for loop of get_liq_dist from position i of the sorted tick indices,
\* with running liquidity l and the liq_dist dict built so far
RECURSIVE LiqDistLoop(_, _, _, _, _)
LiqDistLoop(tk, order, i, l, dist) ==
    IF i > Len(order)
    THEN IF l.num = UFlow128(0).num
         THEN Dict(dist)
         ELSE Raise("AssertionError: Total liquidity in pool does not net to zero")
    ELSE LET tick_idx == order[i]
             d == tk[tick_idx]
         IN  IF d.num = IFlow128(0).num
             THEN LiqDistLoop(tk, order, i + 1, l, dist)
             ELSE LET nl == calc_liq_net(l, d, TRUE)
                  IN  IF ~nl.ok THEN nl
                      ELSE LiqDistLoop(tk, order, i + 1, nl,
                                       (tick_idx :> nl) @@ dist)

\* UniswapV3Pool.get_liq_dist on a pool whose ticks are loaded
get_liq_dist(tk) ==
    LiqDistLoop(tk.val, Sorted(DOMAIN tk.val), 1, UFlow128(0), EmptyDict)

\* the page of ticks the subgraph answers a query that skips num_skip ticks
\* with: the next page_size of them, fewer or none at the end
Query(rem, ps, num_skip) ==
    SubSeq(rem, num_skip + 1,
           IF num_skip + ps < Len(rem) THEN num_skip + ps ELSE Len(rem))

\* the inner for loop of get_ticks from position j of a page:
\* ticks[int(tickIdx)] = IFlow128(liquidityNet)
RECURSIVE MergePage(_, _, _)
MergePage(tk, page, j) ==
    IF j > Len(page) THEN Dict(tk)
    ELSE LET v == IFlow128(page[j].liquidityNet)
         IN  IF ~v.ok THEN v
             ELSE MergePage((page[j].tickIdx :> v) @@ tk, page, j + 1)

\* the for loop of get_ticks at iteration i of range(max_num_pages), with
\* the num_skip of every query made so far
RECURSIVE GetTicksLoop(_, _, _, _, _, _, _)
GetTicksLoop(rem, ps, maxp, i, num_skip, tk, skips) ==
    IF i >= maxp
    THEN [result |-> Raise("TimeoutError"), skips |-> skips]
    ELSE LET page == Query(rem, ps, num_skip)
             asked == Append(skips, num_skip)
         IN  IF Len(page) = 0
             THEN [result |-> Dict(tk), skips |-> asked]
             ELSE LET merged == MergePage(tk, page, 1)
                  IN  IF ~merged.ok
                      THEN [result |-> merged, skips |-> asked]
                      ELSE GetTicksLoop(rem, ps, maxp, i + 1,
                                        num_skip + Len(page), merged.val,
                                        asked)

\* UniswapV3Pool.get_ticks against a subgraph that holds rem
get_ticks(rem, ps, maxp) == GetTicksLoop(rem, ps, maxp, 0, 0, EmptyDict, <<>>)

\* get_ticks(self, max_num_pages=99)
DefaultMaxNumPages == 99

----------------------------------------------------------------------------
(* calc_liq_net on one running liquidity and one delta *)

UFlow128s == {UFlow128(n) : n \in 0 .. (Pow2(LiqBits) - 1)}

IFlow128s == {IFlow128(n) : n \in (-Pow2(LiqBits - 1)) .. (Pow2(LiqBits - 1) - 1)}

InitLiq ==
    /\ liq \in UFlow128s
    /\ dliq \in IFlow128s
    /\ is_allow_overflow \in BOOLEAN
    /\ new_liq = None
    /\ IdleFlow /\ IdlePool /\ IdleFees /\ IdleBase
    /\ IdlePages /\ IdleEnsure

CalcLiqNet ==
    /\ liq # None /\ new_liq = None
    /\ new_liq' = calc_liq_net(liq, dliq, is_allow_overflow)
    /\ UNCHANGED <<liq, dliq, is_allow_overflow, notLiq>>

NextLiq == CalcLiqNet

SpecLiq == InitLiq /\ [][NextLiq]_vars

----------------------------------------------------------------------------
(* get_liq_dist on a pool constructed with its ticks *)

TickIdxs == (-1) .. MaxTick

\* the tick-to-delta mappings over the tick indices s
TickMaps(s) == [s -> IFlow128s]

InitPool ==
    /\ \E s \in SUBSET TickIdxs : \E f \in TickMaps(s) : ticks = Dict(f)
    /\ liq_dist = None
    /\ IdleFlow /\ IdleLiq /\ IdleFees /\ IdleBase
    /\ IdlePages /\ IdleEnsure

GetLiqDist ==
    /\ ticks # None /\ liq_dist = None
    /\ liq_dist' = get_liq_dist(ticks)
    /\ UNCHANGED <<ticks, notPool>>

NextPool == GetLiqDist

SpecPool == InitPool /\ [][NextPool]_vars

----------------------------------------------------------------------------
(* get_ticks on a pool of the subgraph *)

\* the liquidityNet values the subgraph holds
RemoteNets == {-1, 0, 1}

\* the tick lists of a pool: one entry per tick index, in any order
Remotes ==
    UNION { { r \in [1 .. n -> [tickIdx : TickIdxs, liquidityNet : RemoteNets]] :
                \A i, j \in 1 .. n : i # j => r[i].tickIdx # r[j].tickIdx } :
            n \in 0 .. MaxRemote }

PageSizes == 1 .. MaxPageSize

InitPages ==
    /\ remote \in Remotes
    /\ page_size \in PageSizes
    /\ max_num_pages \in 1 .. MaxPages
    /\ got = None
    /\ IdleFlow /\ IdleLiq /\ IdlePool /\ IdleFees /\ IdleBase /\ IdleEnsure

GetTicks ==
    /\ got = None
    /\ got' = get_ticks(remote, page_size, max_num_pages)
    /\ UNCHANGED <<remote, page_size, max_num_pages, notPages>>

NextPages == GetTicks

SpecPages == InitPages /\ [][NextPages]_vars

----------------------------------------------------------------------------
(* ensure_ticks and ensure_liq_dist on one pool *)

\* the tick mappings a pool is constructed with
GivenTicks(s) == [s -> {IFlow128(n) : n \in RemoteNets}]

\* what self.get_ticks() does: the subgraph answers, or a query raises
Fetched ==
    {get_ticks(remote, page_size, max_num_pages).result,
     Raise("TransportQueryError")}

InitEnsure ==
    /\ \/ /\ ticks = None
          /\ remote \in Remotes
          /\ page_size \in PageSizes
       \/ /\ \E s \in SUBSET TickIdxs : \E f \in GivenTicks(s) : ticks = Dict(f)
          /\ remote = <<>>
          /\ page_size = 1
    /\ max_num_pages = DefaultMaxNumPages
    /\ got = None
    /\ liq_dist = None
    /\ num_get_ticks = 0 /\ num_get_liq_dist = 0 /\ raised = None
    /\ IdleFlow /\ IdleLiq /\ IdleFees /\ IdleBase

CallsLeft == num_get_ticks < MaxCalls /\ num_get_liq_dist < MaxCalls

\* UniswapV3Pool.ensure_ticks
EnsureTicks ==
    /\ CallsLeft
    /\ IF ticks = None
       THEN \E r \in Fetched :
                /\ num_get_ticks' = num_get_ticks + 1
                /\ ticks' = IF r.ok THEN r ELSE ticks
                /\ raised' = IF r.ok THEN None ELSE r
       ELSE /\ UNCHANGED <<ticks, num_get_ticks>>
            /\ raised' = None
    /\ UNCHANGED <<liq_dist, num_get_liq_dist, pagesVars, notEnsure>>

\* UniswapV3Pool.ensure_liq_dist: ensure_ticks, then get_liq_dist (whose own
\* ensure_ticks finds the ticks loaded) if liq_dist is None
EnsureLiqDist ==
    /\ CallsLeft
    /\ \E r \in (IF ticks = None THEN Fetched ELSE {ticks}) :
           /\ num_get_ticks' =
                  IF ticks = None THEN num_get_ticks + 1 ELSE num_get_ticks
           /\ IF ~r.ok
              THEN /\ raised' = r
                   /\ UNCHANGED <<ticks, liq_dist, num_get_liq_dist>>
              ELSE /\ ticks' = r
                   /\ IF liq_dist = None
                      THEN LET d == get_liq_dist(r)
                           IN  /\ num_get_liq_dist' = num_get_liq_dist + 1
                               /\ liq_dist' = IF d.ok THEN d ELSE liq_dist
                               /\ raised' = IF d.ok THEN None ELSE d
                      ELSE /\ UNCHANGED <<liq_dist, num_get_liq_dist>>
                           /\ raised' = None
    /\ UNCHANGED <<pagesVars, notEnsure>>

NextEnsure == EnsureTicks \/ EnsureLiqDist

SpecEnsure == InitEnsure /\ [][NextEnsure]_vars

----------------------------------------------------------------------------
(* pyuv3/pos.py *)

\* the fee-growth accumulators are UFlow(..., num_bits=256)
UFlow256(n) == UFlow(n, FeeBits)

\* max_tick_fee_growth_above with the tick comparison written >
max_tick_fee_growth_above_Strict(cur, mx, g, outside) ==
    IF cur > mx THEN UFlowSub(g, outside) ELSE outside

\* f_a(i_u): the fee growth above the upper tick, for one token
max_tick_fee_growth_above(cur, mx, g, outside) ==
    IF cur >= mx THEN UFlowSub(g, outside) ELSE outside

\* min_tick_fee_growth_below with its two branches exchanged
min_tick_fee_growth_below_Swapped(cur, mn, g, outside) ==
    IF cur >= mn THEN UFlowSub(g, outside) ELSE outside

\* f_b(i_l): the fee growth below the lower tick, for one token
min_tick_fee_growth_below(cur, mn, g, outside) ==
    IF cur >= mn THEN outside ELSE UFlowSub(g, outside)

\* f_r(t1) = f_g - f_b(i_l) - f_a(i_u), for one token
fr_t1(g, below, above) == UFlowSub(UFlowSub(g, below), above)

\* (fr_t1 - fee_growth_inside_last).num with no wrap
fee_growth_delta_NoWrap(fr, il) == fr.num - il.num

\* (fr_t1 - fee_growth_inside_last).num: f_r(t1) - f_r(t0), for one token
fee_growth_delta(fr, il) == UFlowSub(fr, il).num

\* UniswapV3Position.calc_fees up to the integers its float results are
\* scaled from: fr_t1_i, num_i = (fr_t1_i - fee_growth_inside_last_i).num and
\* fees_i = int(liquidity) * num_i, of which token_i is the float
\* int(liquidity) * (num_i / 2 ** 128) / 10 ** decimals_i
calc_fees(l, cur, mn, mx, g0x, g1x, lo0x, lo1x, uo0x, uo1x, il0x, il1x) ==
    LET global_fee_growth0 == UFlow256(g0x)
        global_fee_growth1 == UFlow256(g1x)
        min_tick_fee_growth_outside0 == UFlow256(lo0x)
        min_tick_fee_growth_outside1 == UFlow256(lo1x)
        max_tick_fee_growth_outside0 == UFlow256(uo0x)
        max_tick_fee_growth_outside1 == UFlow256(uo1x)
        fee_growth_inside_last0 == UFlow256(il0x)
        fee_growth_inside_last1 == UFlow256(il1x)
        max_tick_fee_growth_above0 ==
            max_tick_fee_growth_above(cur, mx, global_fee_growth0,
                                      max_tick_fee_growth_outside0)
        max_tick_fee_growth_above1 ==
            max_tick_fee_growth_above(cur, mx, global_fee_growth1,
                                      max_tick_fee_growth_outside1)
        min_tick_fee_growth_below0 ==
            min_tick_fee_growth_below(cur, mn, global_fee_growth0,
                                      min_tick_fee_growth_outside0)
        min_tick_fee_growth_below1 ==
            min_tick_fee_growth_below(cur, mn, global_fee_growth1,
                                      min_tick_fee_growth_outside1)
        fr_t1_0 == fr_t1(global_fee_growth0, min_tick_fee_growth_below0,
                         max_tick_fee_growth_above0)
        fr_t1_1 == fr_t1(global_fee_growth1, min_tick_fee_growth_below1,
                         max_tick_fee_growth_above1)
    IN  IF \E a \in {global_fee_growth0, global_fee_growth1,
                     min_tick_fee_growth_outside0, min_tick_fee_growth_outside1,
                     max_tick_fee_growth_outside0, max_tick_fee_growth_outside1,
                     fee_growth_inside_last0, fee_growth_inside_last1} : ~a.ok
        THEN Raise("AssertionError")
        ELSE [ok |-> TRUE,
              fr_t1_0 |-> fr_t1_0,
              fr_t1_1 |-> fr_t1_1,
              num0 |-> fee_growth_delta(fr_t1_0, fee_growth_inside_last0),
              num1 |-> fee_growth_delta(fr_t1_1, fee_growth_inside_last1),
              fees0 |-> l * fee_growth_delta(fr_t1_0, fee_growth_inside_last0),
              fees1 |-> l * fee_growth_delta(fr_t1_1, fee_growth_inside_last1)]

----------------------------------------------------------------------------
(* calc_fees on one position *)

\* three tick values give (current_tick, min_tick, max_tick) every order,
\* ties included, that the comparisons of calc_fees can tell apart
FeeTicks == {-1, 0, 1}

\* every value of an accumulator, taken by the token-0 arguments
FeeNums == 0 .. (Pow2(FeeBits) - 1)

\* each token-1 argument is drawn as the one's complement of the token-0
\* argument, so both tokens range over every value and never share one
FeeComplement(n) == Pow2(FeeBits) - 1 - n

\* a negative, a zero and a positive liquidity, drawn when calc_fees is called
Liquidities == {-1, 0, 1}

InitFees ==
    /\ liquidity = 0
    /\ current_tick \in FeeTicks
    /\ min_tick \in FeeTicks
    /\ max_tick \in FeeTicks
    /\ global_fee_growth0x128 \in FeeNums
    /\ min_tick_fee_growth_outside0x128 \in FeeNums
    /\ max_tick_fee_growth_outside0x128 \in FeeNums
    /\ fee_growth_inside_last0x128 \in FeeNums
    /\ global_fee_growth1x128 = FeeComplement(global_fee_growth0x128)
    /\ min_tick_fee_growth_outside1x128 =
           FeeComplement(min_tick_fee_growth_outside0x128)
    /\ max_tick_fee_growth_outside1x128 =
           FeeComplement(max_tick_fee_growth_outside0x128)
    /\ fee_growth_inside_last1x128 =
           FeeComplement(fee_growth_inside_last0x128)
    /\ fees = None
    /\ IdleFlow /\ IdleLiq /\ IdlePool /\ IdleBase
    /\ IdlePages /\ IdleEnsure

CalcFees ==
    /\ fees = None
    /\ liquidity' \in Liquidities
    /\ fees' = calc_fees(liquidity', current_tick, min_tick, max_tick,
                         global_fee_growth0x128, global_fee_growth1x128,
                         min_tick_fee_growth_outside0x128,
                         min_tick_fee_growth_outside1x128,
                         max_tick_fee_growth_outside0x128,
                         max_tick_fee_growth_outside1x128,
                         fee_growth_inside_last0x128,
                         fee_growth_inside_last1x128)
    /\ UNCHANGED <<feeTicksAndGrowth, notFees>>

NextFees == CalcFees

SpecFees == InitFees /\ [][NextFees]_vars

----------------------------------------------------------------------------
(* pyuv3/base.py *)

\* a value returned by a call
Return(v) == [ok |-> TRUE, val |-> v]

\* the dict literal of calc_fee_tier_tick_spacing
FeeTierSpacings == (500 :> 10) @@ (3000 :> 60) @@ (10000 :> 200)

\* a Python number (an int, or a float with a fraction of 0 or 1/2), held as
\* its count of halves
PyNum(h) == [halves |-> h]

\* int(x): the integral part of x, truncated toward zero
PyInt(x) ==
    IF x.halves >= 0 THEN x.halves \div 2 ELSE -((-x.halves) \div 2)

\* calc_fee_tier_tick_spacing looking the tier up with a default of 60
calc_fee_tier_tick_spacing_Default(ft) ==
    IF PyInt(ft) \in DOMAIN FeeTierSpacings
    THEN Return(FeeTierSpacings[PyInt(ft)])
    ELSE Return(60)

\* calc_fee_tier_tick_spacing: the dict literal indexed by int(fee_tier); a
\* missing key raises KeyError
calc_fee_tier_tick_spacing(ft) ==
    IF PyInt(ft) \in DOMAIN FeeTierSpacings
    THEN Return(FeeTierSpacings[PyInt(ft)])
    ELSE Raise("KeyError")

----------------------------------------------------------------------------
(* calc_fee_tier_tick_spacing on one fee tier *)

\* the numbers -1, -1/2, 0, 1/2, ..., MaxFeeTier
FeeTiers == { PyNum(h) : h \in (-2) .. (2 * MaxFeeTier) }

InitBase ==
    /\ fee_tier \in FeeTiers
    /\ tick_spacing = None
    /\ IdleFlow /\ IdleLiq /\ IdlePool /\ IdleFees
    /\ IdlePages /\ IdleEnsure

CalcFeeTierTickSpacing ==
    /\ tick_spacing = None
    /\ tick_spacing' = calc_fee_tier_tick_spacing(fee_tier)
    /\ UNCHANGED <<fee_tier, notBase>>

NextBase == CalcFeeTierTickSpacing

SpecBase == InitBase /\ [][NextBase]_vars

----------------------------------------------------------------------------
(* Reference arithmetic for the properties, independent of the code's   *)
(* masks and branches                                                    *)

\* the value of [-2^(b-1), 2^(b-1) - 1] congruent to v modulo 2^b
SignedWrap(v, b) ==
    LET m == v % Pow2(b)
    IN  IF m >= Pow2(b - 1) THEN m - Pow2(b) ELSE m

Representable(v, s, b) ==
    IF s THEN -Pow2(b - 1) <= v /\ v <= Pow2(b - 1) - 1
    ELSE 0 <= v /\ v < Pow2(b)

\* the quotient of x by y rounded toward zero
TruncQuot(x, y) ==
    LET m == (IF x < 0 THEN -x ELSE x) \div (IF y < 0 THEN -y ELSE y)
    IN  IF (x < 0) = (y < 0) THEN m ELSE -m

RawResult ==
    CASE op = "add" -> lhs.num + rhs.num
      [] op = "sub" -> lhs.num - rhs.num
      [] op = "mul" -> lhs.num * rhs.num
      [] OTHER -> 0

RECURSIVE SumOver(_, _)
SumOver(f, s) ==
    IF s = {} THEN 0
    ELSE LET t == CHOOSE x \in s : TRUE
         IN  f[t].num + SumOver(f, s \ {t})

\* the mathematical sum of all the deltas of a tick mapping
MathSum(f) == SumOver(f, DOMAIN f)

\* the mathematical sum of the deltas at ticks <= t
PrefixSum(f, t) == SumOver(f, {u \in DOMAIN f : u <= t})

NotNetToZero ==
    Raise("AssertionError: Total liquidity in pool does not net to zero")

----------------------------------------------------------------------------
(* Properties *)

\* C1: for in-range unsigned operands UFlow +, - and * never fail and
\* return (x + y) mod 2^b, (x - y) mod 2^b, (x * y) mod 2^b at width b.
C1_UFlowModular ==
    (op \in {"add", "sub", "mul"} /\ ~is_signed) =>
        result = [ok |-> TRUE, num |-> RawResult % Pow2(num_bits),
                  is_signed |-> FALSE, num_bits |-> num_bits]

C1_Witness ==
    /\ op = "sub" /\ ~is_signed /\ num_bits >= 3
    /\ lhs.num < rhs.num /\ result.ok
    /\ result.num = lhs.num - rhs.num + Pow2(num_bits)

\* C2: for in-range signed operands IFlow + and - never fail and return the
\* one value of the signed range congruent to the raw result modulo 2^b,
\* which is the raw result shifted by 2^b at most once.
C2_IFlowAddSubWrap ==
    (op \in {"add", "sub"} /\ is_signed) =>
        /\ result = [ok |-> TRUE, num |-> SignedWrap(RawResult, num_bits),
                     is_signed |-> TRUE, num_bits |-> num_bits]
        /\ result.num \in {RawResult, RawResult - Pow2(num_bits),
                           RawResult + Pow2(num_bits)}

C2_Witness ==
    /\ op = "add" /\ is_signed /\ num_bits >= 3
    /\ lhs.num + rhs.num < -Pow2(num_bits - 1)
    /\ result.ok /\ result.num = lhs.num + rhs.num + Pow2(num_bits)

\* C3: for in-range signed operands IFlow * never fails and returns the one
\* value of the signed range congruent to x * y modulo 2^b.
C3_IFlowMulWraps ==
    (op = "mul" /\ is_signed) =>
        result = [ok |-> TRUE, num |-> SignedWrap(RawResult, num_bits),
                  is_signed |-> TRUE, num_bits |-> num_bits]

\* C4: construction succeeds and stores the given value iff the value is in
\* [0, 2^b) when unsigned or [-2^(b-1), 2^(b-1) - 1] when signed; otherwise
\* it fails and there is no object.
C4_ConstructIffInRange ==
    (pc \in {"built", "done"}) =>
        /\ lhs = IF Representable(num, is_signed, num_bits)
                 THEN [ok |-> TRUE, num |-> num, is_signed |-> is_signed,
                       num_bits |-> num_bits]
                 ELSE Raise("AssertionError")
        /\ rhs = IF Representable(o_num, is_signed, num_bits)
                 THEN [ok |-> TRUE, num |-> o_num, is_signed |-> is_signed,
                       num_bits |-> num_bits]
                 ELSE Raise("AssertionError")

C4_Witness ==
    /\ pc = "built" /\ is_signed /\ num_bits >= 2
    /\ num = -Pow2(num_bits - 1) /\ lhs.ok /\ lhs.num = num
    /\ o_num = Pow2(num_bits - 1) /\ ~rhs.ok

\* C5: calc_liq_net in wrap mode never fails, for any unsigned current
\* liquidity and signed delta (the most negative included), and returns
\* (current + delta) mod 2^width, which is current + delta when that is in
\* [0, 2^width).
C5_LiqNetWrap ==
    (new_liq # None /\ is_allow_overflow) =>
        LET s == liq.num + dliq.num
        IN  /\ new_liq = [ok |-> TRUE, num |-> s % Pow2(LiqBits),
                          is_signed |-> FALSE, num_bits |-> LiqBits]
            /\ (0 <= s /\ s < Pow2(LiqBits)) => new_liq.num = s

C5_Witness ==
    /\ new_liq # None /\ is_allow_overflow
    /\ dliq.num = -Pow2(LiqBits - 1) /\ liq.num < Pow2(LiqBits - 1)
    /\ new_liq.ok /\ new_liq.num = liq.num + Pow2(LiqBits - 1)

\* C6: calc_liq_net with is_allow_overflow=False fails, with 'LS' for a
\* negative delta and 'LA' otherwise, exactly when current + delta is
\* outside [0, 2^width), that is when the wrapped result is not < current
\* (delta < 0) or not >= current (delta >= 0); when it does not fail it
\* returns current + delta.
C6_LiqNetStrict ==
    (new_liq # None /\ ~is_allow_overflow) =>
        LET s == liq.num + dliq.num
            w == s % Pow2(LiqBits)
            outside == s < 0 \/ s >= Pow2(LiqBits)
        IN  /\ outside <=> ~new_liq.ok
            /\ dliq.num < 0 => (outside <=> ~(w < liq.num))
            /\ dliq.num >= 0 => (outside <=> ~(w >= liq.num))
            /\ ~new_liq.ok =>
                   new_liq = Raise(IF dliq.num < 0 THEN "AssertionError: LS"
                                   ELSE "AssertionError: LA")
            /\ new_liq.ok =>
                   new_liq = [ok |-> TRUE, num |-> s, is_signed |-> FALSE,
                              num_bits |-> LiqBits]

C6_Witness ==
    /\ new_liq # None /\ ~is_allow_overflow
    /\ dliq.num < 0 /\ liq.num + dliq.num < 0
    /\ new_liq = Raise("AssertionError: LS")

\* C7: get_liq_dist fails with the 'does not net to zero' error for every
\* tick mapping whose deltas have a nonzero mathematical sum.
C7_NonzeroSumFails ==
    (liq_dist # None /\ MathSum(ticks.val) # 0) => liq_dist = NotNetToZero

\* C8: get_liq_dist returns a distribution for every tick mapping whose
\* deltas have mathematical sum zero, also when running totals wrap.
C8_ZeroSumSucceeds ==
    (liq_dist # None /\ MathSum(ticks.val) = 0) =>
        /\ liq_dist.ok
        /\ DOMAIN liq_dist.val \subseteq DOMAIN ticks.val

C8_Witness ==
    /\ liq_dist # None /\ MathSum(ticks.val) = 0 /\ liq_dist.ok
    /\ \E t \in DOMAIN liq_dist.val :
           /\ PrefixSum(ticks.val, t) < 0
           /\ liq_dist.val[t].num = PrefixSum(ticks.val, t) + Pow2(LiqBits)

\* the exact integer fee growth inside the range for one token
ExactInside(cur, mn, mx, g, lo, uo) ==
    LET above == IF cur >= mx THEN g - uo ELSE uo
        below == IF cur >= mn THEN lo ELSE g - lo
    IN  g - below - above

\* C9: for each token calc_fees computes the fee growth inside the range as
\* global - below - above with wrapping subtraction, above = global -
\* upper_outside if current_tick >= upper_tick else upper_outside, below =
\* lower_outside if current_tick >= lower_tick else global - lower_outside,
\* both comparisons inclusive; it is the exact integer expression reduced
\* modulo 2^width.
C9_FeeGrowthInside ==
    fees # None =>
        /\ fees.ok
        /\ fees.fr_t1_0 =
               [ok |-> TRUE, is_signed |-> FALSE, num_bits |-> FeeBits,
                num |-> ExactInside(current_tick, min_tick, max_tick,
                                    global_fee_growth0x128,
                                    min_tick_fee_growth_outside0x128,
                                    max_tick_fee_growth_outside0x128)
                            % Pow2(FeeBits)]
        /\ fees.fr_t1_1 =
               [ok |-> TRUE, is_signed |-> FALSE, num_bits |-> FeeBits,
                num |-> ExactInside(current_tick, min_tick, max_tick,
                                    global_fee_growth1x128,
                                    min_tick_fee_growth_outside1x128,
                                    max_tick_fee_growth_outside1x128)
                            % Pow2(FeeBits)]

\* the current tick sits on both ends of the range, the global accumulator
\* has wrapped below the upper outside one, and the '>=' branches show
C9_Witness ==
    /\ fees # None /\ fees.ok
    /\ current_tick = max_tick /\ current_tick = min_tick
    /\ global_fee_growth0x128 < max_tick_fee_growth_outside0x128
    /\ max_tick_fee_growth_outside0x128 < min_tick_fee_growth_outside0x128
    /\ fees.fr_t1_0.num = max_tick_fee_growth_outside0x128
                            - min_tick_fee_growth_outside0x128 + Pow2(FeeBits)
    /\ fees.fr_t1_0.num # (global_fee_growth0x128
                             - min_tick_fee_growth_outside0x128
                             - max_tick_fee_growth_outside0x128) % Pow2(FeeBits)

\* C10 (as stated): signed division rounds the quotient toward zero
\* whenever the divisor is nonzero and that quotient is representable.
C10_TruncatesTowardZero ==
    (op = "truediv" /\ is_signed /\ rhs.num # 0) =>
        LET q == TruncQuot(lhs.num, rhs.num)
        IN  Representable(q, TRUE, num_bits) =>
                result = [ok |-> TRUE, num |-> q, is_signed |-> TRUE,
                          num_bits |-> num_bits]

\* C10 (amended): signed division rounds the quotient toward minus
\* infinity: for a nonzero divisor y and any q of the signed range with
\* x = q * y + r, r between 0 and y (0 included, y excluded), x / y is q.
C10_FloorsQuotient ==
    (op = "truediv" /\ is_signed /\ rhs.num # 0) =>
        \A q \in (-Pow2(num_bits - 1)) .. (Pow2(num_bits - 1) - 1) :
            LET r == lhs.num - q * rhs.num
            IN  ((rhs.num > 0 /\ 0 <= r /\ r < rhs.num)
                   \/ (rhs.num < 0 /\ rhs.num < r /\ r <= 0)) =>
                    result = [ok |-> TRUE, num |-> q, is_signed |-> TRUE,
                              num_bits |-> num_bits]

C10_Witness ==
    /\ op = "truediv" /\ is_signed
    /\ lhs.num = -7 /\ rhs.num = 2 /\ result.ok /\ result.num = -4


\* C11: division fails with a division-by-zero error when the divisor is
\* zero, and for every nonzero in-range divisor, signed or unsigned, it
\* returns a value of the same bit width and signedness without failing.
C11_DivisionTotal ==
    (op = "truediv") =>
        IF rhs.num = 0 THEN result = Raise("ZeroDivisionError")
        ELSE /\ result.ok
             /\ result.num_bits = num_bits
             /\ result.is_signed = is_signed


\* C12: calc_fee_tier_tick_spacing returns 10 for fee tier 500, 60 for 3000
\* and 200 for 10000, and fails, with no value and no default, for every
\* other fee tier, e.g. 400.
\* A fee tier is an integer: a number with no fractional part.
IsFeeTier(x) == x.halves % 2 = 0

TierOf(x) == x.halves \div 2

C12_FeeTierSpacing ==
    (tick_spacing # None /\ IsFeeTier(fee_tier)) =>
        /\ TierOf(fee_tier) = 500 => tick_spacing = [ok |-> TRUE, val |-> 10]
        /\ TierOf(fee_tier) = 3000 => tick_spacing = [ok |-> TRUE, val |-> 60]
        /\ TierOf(fee_tier) = 10000 =>
               tick_spacing = [ok |-> TRUE, val |-> 200]
        /\ TierOf(fee_tier) \notin {500, 3000, 10000} => ~tick_spacing.ok

C12_Witness ==
    /\ IsFeeTier(fee_tier) /\ TierOf(fee_tier) = 400
    /\ tick_spacing = Raise("KeyError")


\* the processing orders of a set of tick indices
RECURSIVE Perms(_)
Perms(S) ==
    IF S = {} THEN {<<>>}
    ELSE UNION { { <<x>> \o o : o \in Perms(S \ {x}) } : x \in S }

\* the running totals recorded when the deltas f are netted in the order o
\* into the running total l with calc_liq_net in wrap mode; a failed netting
\* ends the sequence with -1
RECURSIVE NetTotals(_, _, _, _)
NetTotals(f, o, i, l) ==
    IF i > Len(o) THEN <<>>
    ELSE LET nl == calc_liq_net(l, f[o[i]], TRUE)
         IN  IF ~nl.ok THEN <<-1>>
             ELSE <<nl.num>> \o NetTotals(f, o, i + 1, nl)

NetRun(f, o) == NetTotals(f, o, 1, UFlow128(0))

FinalTotal(run) == IF run = <<>> THEN 0 ELSE run[Len(run)]

\* the two exchanges every reordering is made of
SwapFirstTwo(o) ==
    IF Len(o) < 2 THEN o ELSE <<o[2], o[1]>> \o SubSeq(o, 3, Len(o))

FirstToLast(o) == IF Len(o) < 2 THEN o ELSE Tail(o) \o <<o[1]>>

\* C13: netting the deltas of the ticks into a running unsigned total with
\* calc_liq_net in wrap mode, starting from zero, gives the same final total
\* for every processing order: the total of the ascending order is the sum of
\* the deltas modulo 2^128, which no reordering changes, and it is again the
\* total after the first two deltas are exchanged and after the first delta
\* is moved to the end.  Every sequence of deltas is the ascending order of
\* one of the tick mappings, and every reordering is made of these two
\* exchanges, so all orders of a multiset agree.  get_liq_dist succeeds
\* exactly when that total is zero.  (That the intermediate totals of two
\* orders can differ, negative-first against positive-first, is the state
\* C13_Witness.)
C13_FinalOrderIndependent ==
    liq_dist # None =>
        LET f == ticks.val
            asc == Sorted(DOMAIN f)
        IN  \A run \in {NetRun(f, asc)} :
                /\ \A i \in 1 .. Len(run) : run[i] # -1
                /\ Len(run) = Cardinality(DOMAIN f)
                /\ FinalTotal(run) = MathSum(f) % Pow2(LiqBits)
                /\ FinalTotal(NetRun(f, SwapFirstTwo(asc))) = FinalTotal(run)
                /\ FinalTotal(NetRun(f, FirstToLast(asc))) = FinalTotal(run)
                /\ liq_dist.ok <=> FinalTotal(run) = 0

C13_Witness ==
    /\ liq_dist # None
    /\ LET f == ticks.val
       IN  \E o1, o2 \in Perms(DOMAIN f) :
               LET r1 == NetRun(f, o1)
                   r2 == NetRun(f, o2)
               IN  /\ Len(o1) >= 2
                   /\ f[o1[1]].num < 0 /\ f[o2[1]].num > 0
                   /\ FinalTotal(r1) = FinalTotal(r2)
                   /\ {r1[i] : i \in 1 .. Len(r1)} # {r2[i] : i \in 1 .. Len(r2)}


\* C14: when get_liq_dist succeeds, the distribution has an entry for exactly
\* the ticks whose delta is nonzero, and the value at each such tick t is the
\* sum of the deltas of all ticks <= t reduced modulo 2^128, an unsigned
\* 128-bit value.
C14_DistIsPrefixSums ==
    (liq_dist # None /\ liq_dist.ok) =>
        LET f == ticks.val
            dist == liq_dist.val
        IN  /\ DOMAIN dist = {t \in DOMAIN f : f[t].num # 0}
            /\ \A t \in DOMAIN dist :
                   dist[t] = UFlow128(PrefixSum(f, t) % Pow2(LiqBits))

C14_Witness ==
    /\ liq_dist # None /\ liq_dist.ok
    /\ \E t \in DOMAIN ticks.val : ticks.val[t].num = 0
    /\ \E t \in DOMAIN liq_dist.val :
           /\ PrefixSum(ticks.val, t) < 0
           /\ liq_dist.val[t].num = PrefixSum(ticks.val, t) + Pow2(LiqBits)


\* C15: for accumulator inputs of the unsigned range and any tick triple
\* calc_fees never fails in its fixed-width arithmetic; the growth delta that
\* liquidity multiplies lies in the unsigned range and is
\* (fee_growth_range_i - inside_last_i) modulo 2^256, also when inside_last_i
\* is the larger number; so for a liquidity >= 0 the uncollected fee of each
\* token is never negative.
C15_GrowthDeltaWraps ==
    fees # None =>
        /\ fees.ok /\ fees.fr_t1_0.ok /\ fees.fr_t1_1.ok
        /\ fees.num0 \in 0 .. (Pow2(FeeBits) - 1)
        /\ fees.num1 \in 0 .. (Pow2(FeeBits) - 1)
        /\ fees.num0 = (fees.fr_t1_0.num - fee_growth_inside_last0x128)
                           % Pow2(FeeBits)
        /\ fees.num1 = (fees.fr_t1_1.num - fee_growth_inside_last1x128)
                           % Pow2(FeeBits)
        /\ fees.fees0 = liquidity * fees.num0
        /\ fees.fees1 = liquidity * fees.num1
        /\ liquidity >= 0 => (fees.fees0 >= 0 /\ fees.fees1 >= 0)

\* inside_last is the larger number for token 0, and the fee is positive
C15_Witness ==
    /\ fees # None /\ fees.ok
    /\ liquidity > 0
    /\ fee_growth_inside_last0x128 > fees.fr_t1_0.num
    /\ fees.num0 = fees.fr_t1_0.num - fee_growth_inside_last0x128
                       + Pow2(FeeBits)
    /\ fees.fees0 > 0


\* what calc_fees returns when only the two global accumulators are replaced
FeesWithGlobal(g0x, g1x) ==
    calc_fees(liquidity, current_tick, min_tick, max_tick, g0x, g1x,
              min_tick_fee_growth_outside0x128,
              min_tick_fee_growth_outside1x128,
              max_tick_fee_growth_outside0x128,
              max_tick_fee_growth_outside1x128,
              fee_growth_inside_last0x128, fee_growth_inside_last1x128)

\* the accumulator value after g, cyclically: from call to call every pair
\* of global accumulators the calls are made with is reached
NextGlobal(g) == (g + 1) % Pow2(FeeBits)

\* C16: with lower_tick <= upper_tick, for current_tick < lower_tick the fee
\* growth inside the range is (lower_outside_i - upper_outside_i) mod 2^256
\* and for current_tick >= upper_tick it is (upper_outside_i -
\* lower_outside_i) mod 2^256, so that calls differing only in global_i
\* return the same fees; for lower_tick <= current_tick < upper_tick it is
\* (global_i - lower_outside_i - upper_outside_i) mod 2^256.
C16_OutsideRangeIgnoresGlobal ==
    (fees # None /\ min_tick <= max_tick) =>
        LET M == Pow2(FeeBits)
            g0 == global_fee_growth0x128
            g1 == global_fee_growth1x128
            lo0 == min_tick_fee_growth_outside0x128
            lo1 == min_tick_fee_growth_outside1x128
            uo0 == max_tick_fee_growth_outside0x128
            uo1 == max_tick_fee_growth_outside1x128
        IN  /\ fees.ok
            /\ current_tick < min_tick =>
                   /\ fees.fr_t1_0.num = (lo0 - uo0) % M
                   /\ fees.fr_t1_1.num = (lo1 - uo1) % M
            /\ current_tick >= max_tick =>
                   /\ fees.fr_t1_0.num = (uo0 - lo0) % M
                   /\ fees.fr_t1_1.num = (uo1 - lo1) % M
            /\ (min_tick <= current_tick /\ current_tick < max_tick) =>
                   /\ fees.fr_t1_0.num = (g0 - lo0 - uo0) % M
                   /\ fees.fr_t1_1.num = (g1 - lo1 - uo1) % M
            /\ (current_tick < min_tick \/ current_tick >= max_tick) =>
                   FeesWithGlobal(NextGlobal(g0), FeeComplement(NextGlobal(g0)))
                       = fees

\* below the range, where the in-range expression would give another value
C16_Witness ==
    /\ fees # None /\ fees.ok
    /\ current_tick < min_tick /\ min_tick < max_tick
    /\ min_tick_fee_growth_outside0x128 < max_tick_fee_growth_outside0x128
    /\ fees.fr_t1_0.num = min_tick_fee_growth_outside0x128
                            - max_tick_fee_growth_outside0x128 + Pow2(FeeBits)
    /\ fees.fr_t1_0.num # (global_fee_growth0x128
                             - min_tick_fee_growth_outside0x128
                             - max_tick_fee_growth_outside0x128) % Pow2(FeeBits)
    /\ FeesWithGlobal(NextGlobal(global_fee_growth0x128),
                      FeeComplement(NextGlobal(global_fee_growth0x128))) = fees


\* the n-th page of ticks counts when it is not empty
NumPages(rem, ps) == (Len(rem) + ps - 1) \div ps

\* all the ticks of the subgraph as one tick-to-delta mapping
MergedTicks(rem) ==
    [t \in {rem[i].tickIdx : i \in 1 .. Len(rem)} |->
        IFlow128(rem[CHOOSE i \in 1 .. Len(rem) : rem[i].tickIdx = t].liquidityNet)]

\* C18: get_ticks ends after at most max_num_pages queries, each query
\* skipping exactly the ticks received so far; it returns the merged
\* tick-to-delta mapping whenever the ticks of the pool fit in at most
\* max_num_pages non-empty pages, and raises TimeoutError only when the pool
\* has more than max_num_pages pages of ticks.
C18_GetTicksPaging ==
    got # None =>
        /\ Len(got.skips) <= max_num_pages
        /\ \A k \in 1 .. Len(got.skips) :
               got.skips[k] = IF (k - 1) * page_size < Len(remote)
                              THEN (k - 1) * page_size ELSE Len(remote)
        /\ NumPages(remote, page_size) <= max_num_pages =>
               got.result = Dict(MergedTicks(remote))
        /\ got.result = Raise("TimeoutError") =>
               NumPages(remote, page_size) > max_num_pages


\* C17: over any sequence of ensure_ticks and ensure_liq_dist calls on one
\* pool, each of which may succeed or raise, get_ticks is performed at most
\* once and get_liq_dist at most once; once ticks or liq_dist are set they are
\* never replaced; a fetch of an empty tick set counts as loaded; and a pool
\* constructed with a ticks mapping never fetches.  (An empty fetch sets
\* ticks to the empty dict, which is not None, and a pool constructed with a
\* mapping starts with ticks set: both fall under 'once set, no more fetch'.)
C17_AtMostOnce ==
    [][/\ num_get_ticks' <= 1
       /\ num_get_liq_dist' <= 1
       /\ ticks # None =>
              (ticks' = ticks /\ num_get_ticks' = num_get_ticks)
       /\ liq_dist # None =>
              (liq_dist' = liq_dist /\ num_get_liq_dist' = num_get_liq_dist)]_vars

=============================================================================
